---- MODULE Spec2Model ----
(***************************************************************************)
(* Model of clock.c: the rasterizer (draw_line, draw_line_bresenham,       *)
(* draw_circle), the polar projection (draw_polar_line) and the clock loop *)
(* of main.                                                                *)
(*                                                                         *)
(* Two state machines share the module.  SpecDraw runs one call of         *)
(* draw_line or draw_circle one loop iteration at a time and records the   *)
(* setpixel calls it makes.  Spec runs main: initscr, draw_init, the       *)
(* circle, and the endless paint / refresh / sleep / erase loop.           *)
(***************************************************************************)
EXTENDS Integers, Sequences, FiniteSets, TLC

VARIABLES
  \* one call of a drawing routine (SpecDraw)
  dpc,      \* position inside the routine
  fn,       \* the routine called
  args,     \* its arguments
  loc,      \* its local variables
  calls,    \* the d->setpixel calls made so far, <<color, x, y>> each
  \* the program (Spec)
  pc,       \* position inside main
  COLS,     \* ncurses terminal width
  LINES,    \* ncurses terminal height
  d,        \* the drawing context returned by draw_init
  cx,       \* main's locals
  cy,
  r,
  lt,       \* the broken-down time read at the top of the iteration
  window,   \* cells that are on in the ncurses window (stdscr)
  events    \* calls main made in the current iteration, in order

drawVars == <<dpc, fn, args, loc, calls>>
mainVars == <<pc, COLS, LINES, d, cx, cy, r, lt, window, events>>
vars == <<dpc, fn, args, loc, calls, pc, COLS, LINES, d, cx, cy, r, lt,
          window, events>>

----------------------------------------------------------------------------
(* Bounds of the model *)

MaxCoord == 3      \* line endpoints and circle centres range over -MaxCoord..MaxCoord
MaxRadius == 8     \* circle radii range over 0..MaxRadius
MaxCalls == 100    \* cap on the setpixel calls of one routine call

Coord == (-MaxCoord)..MaxCoord
Colors == {0, 1}

----------------------------------------------------------------------------
(* The rasterizer *)

abs(a) == IF a > 0 THEN a ELSE -a

Min(a, b) == IF a < b THEN a ELSE b
Max(a, b) == IF a > b THEN a ELSE b

StepSignAlwaysForwardMut(delta) == 1

\* if(dx >= 0) { xs = 1; } else { xs = -1; dx = -dx; }   (and the same for dy, ys)
StepSign(delta) == IF delta >= 0 THEN 1 ELSE -1

\* draw_line_bresenham: the locals when the for loop starts (x = sx done).
BresenhamEnter(sx, sy, ex, ey) ==
  LET dx0 == ex - sx
      dy0 == ey - sy
      steep == abs(dy0) >= abs(dx0)
      sx1 == IF steep THEN sy ELSE sx
      sy1 == IF steep THEN sx ELSE sy
      ex1 == IF steep THEN ey ELSE ex
      ey1 == IF steep THEN ex ELSE ey
      dx1 == IF steep THEN dy0 ELSE dx0
      dy1 == IF steep THEN dx0 ELSE dy0
      xs  == StepSign(dx1)
      dx2 == IF dx1 >= 0 THEN dx1 ELSE -dx1
      ys  == StepSign(dy1)
      dy2 == IF dy1 >= 0 THEN dy1 ELSE -dy1
  IN [branch |-> "bresenham", steep |-> steep,
      sx |-> sx1, sy |-> sy1, ex |-> ex1, ey |-> ey1,
      dx |-> dx2, dy |-> dy2, xs |-> xs, ys |-> ys,
      e |-> 2 * dy2 - dx2, x |-> sx1, y |-> sy1]

\* for(x = sx; x != ex; x += xs)
BresenhamCond(st) == st.x # st.ex

\* if(steep) { xx = y; yy = x; } else { xx = x; yy = y; }
BresenhamPixelUntransposedMut(st) == <<st.x, st.y>>

BresenhamPixel(st) == IF st.steep THEN <<st.y, st.x>> ELSE <<st.x, st.y>>

\* the error update of the loop body, then x += xs
BresenhamBody(st) ==
  IF st.e > 0
    THEN [st EXCEPT !.e = @ + 2 * (st.dy - st.dx), !.y = @ + st.ys, !.x = @ + st.xs]
    ELSE [st EXCEPT !.e = @ + 2 * st.dy, !.x = @ + st.xs]

\* draw_line, sx == ex: swap so that sy <= ey, then i = sy
VerticalEnter(sx, sy, ex, ey) ==
  [branch |-> "vertical", sx |-> sx, sy |-> Min(sy, ey), ey |-> Max(sy, ey),
   i |-> Min(sy, ey)]

VerticalCondExclusiveMut(st) == st.i < st.ey

\* for(i = sy; i <= ey; i++)
VerticalCond(st) == st.i <= st.ey

VerticalPixel(st) == <<st.sx, st.i>>

\* draw_line, sy == ey: swap so that sx <= ex, then i = sx
HorizontalEnter(sx, sy, ex, ey) ==
  [branch |-> "horizontal", sy |-> sy, sx |-> Min(sx, ex), ex |-> Max(sx, ex),
   i |-> Min(sx, ex)]

\* for(i = sx; i <= ex; i++)
HorizontalCond(st) == st.i <= st.ex

HorizontalPixel(st) == <<st.i, st.sy>>

\* i++
CountBody(st) == [st EXCEPT !.i = @ + 1]

\* draw_line: the branch taken and the locals its loop starts with
LineEnter(sx, sy, ex, ey) ==
  IF sx = ex THEN VerticalEnter(sx, sy, ex, ey)
  ELSE IF sy = ey THEN HorizontalEnter(sx, sy, ex, ey)
  ELSE BresenhamEnter(sx, sy, ex, ey)

LineCond(st) ==
  CASE st.branch = "vertical" -> VerticalCond(st)
    [] st.branch = "horizontal" -> HorizontalCond(st)
    [] st.branch = "bresenham" -> BresenhamCond(st)

LinePixel(st) ==
  CASE st.branch = "vertical" -> VerticalPixel(st)
    [] st.branch = "horizontal" -> HorizontalPixel(st)
    [] st.branch = "bresenham" -> BresenhamPixel(st)

LineBody(st) ==
  CASE st.branch = "vertical" -> CountBody(st)
    [] st.branch = "horizontal" -> CountBody(st)
    [] st.branch = "bresenham" -> BresenhamBody(st)

RECURSIVE LineRun(_, _)
LineRun(st, out) ==
  IF LineCond(st) THEN LineRun(LineBody(st), Append(out, LinePixel(st))) ELSE out

\* The cells a call of draw_line passes to setpixel, in call order.
draw_line(sx, sy, ex, ey) == LineRun(LineEnter(sx, sy, ex, ey), <<>>)

\* draw_circle: the locals when the while loop starts
CircleEnter(ccx, ccy, cr) ==
  [cx |-> ccx, cy |-> ccy, f |-> 1 - cr, x |-> 0, y |-> cr, dx |-> 1, dy |-> -2 * cr]

\* the four extreme points painted before the loop
CircleExtremes(ccx, ccy, cr) ==
  << <<ccx + cr, ccy>>, <<ccx - cr, ccy>>, <<ccx, ccy + cr>>, <<ccx, ccy - cr>> >>

\* while(x < y)
CircleCond(st) == st.x < st.y

\* if(f >= 0) { y--; dy += 2; f += dy; }  x++; dx += 2; f += dx;
CircleAdvanceNoDecisionMut(st) ==
  [st EXCEPT !.x = @ + 1, !.dx = @ + 2, !.f = @ + st.dx + 2]

CircleAdvance(st) ==
  LET s1 == IF st.f >= 0
              THEN [st EXCEPT !.y = @ - 1, !.dy = @ + 2, !.f = @ + st.dy + 2]
              ELSE st
  IN [s1 EXCEPT !.x = @ + 1, !.dx = @ + 2, !.f = @ + s1.dx + 2]

\* the eight setpixel calls of one iteration, on the advanced x and y
CircleOctants(st) ==
  << <<st.cx + st.x, st.cy + st.y>>, <<st.cx - st.x, st.cy + st.y>>,
     <<st.cx + st.x, st.cy - st.y>>, <<st.cx - st.x, st.cy - st.y>>,
     <<st.cx + st.y, st.cy + st.x>>, <<st.cx - st.y, st.cy + st.x>>,
     <<st.cx + st.y, st.cy - st.x>>, <<st.cx - st.y, st.cy - st.x>> >>

RECURSIVE CircleRun(_, _)
CircleRun(st, out) ==
  IF CircleCond(st)
    THEN CircleRun(CircleAdvance(st), out \o CircleOctants(CircleAdvance(st)))
    ELSE out

\* The cells a call of draw_circle passes to setpixel, in call order.
draw_circle(ccx, ccy, cr) ==
  CircleRun(CircleEnter(ccx, ccy, cr), CircleExtremes(ccx, ccy, cr))

\* cells as setpixel calls of one color
WithColor(color, cells) == [k \in 1..Len(cells) |-> <<color, cells[k][1], cells[k][2]>>]

----------------------------------------------------------------------------
(* SpecDraw: one call of draw_line or draw_circle, one loop iteration per step *)

NoLoc == [branch |-> "none"]

\* No routine has been called; main is not running.
InitDraw ==
  /\ dpc = "idle" /\ fn = "none" /\ args = <<>> /\ loc = NoLoc /\ calls = <<>>
  /\ pc = "off" /\ COLS = 0 /\ LINES = 0 /\ d = "NULL" /\ cx = 0 /\ cy = 0 /\ r = 0
  /\ lt = <<>> /\ window = {} /\ events = <<>>

EnterDrawLine ==
  /\ dpc = "idle"
  /\ \E color \in Colors, sx \in Coord, sy \in Coord, ex \in Coord, ey \in Coord :
       /\ fn' = "draw_line"
       /\ args' = [color |-> color, sx |-> sx, sy |-> sy, ex |-> ex, ey |-> ey]
       /\ loc' = LineEnter(sx, sy, ex, ey)
       /\ dpc' = LineEnter(sx, sy, ex, ey).branch
  /\ calls' = <<>>
  /\ UNCHANGED mainVars

LineIter ==
  /\ dpc \in {"vertical", "horizontal", "bresenham"}
  /\ LineCond(loc)
  /\ Len(calls) < MaxCalls
  /\ calls' = Append(calls, <<args.color, LinePixel(loc)[1], LinePixel(loc)[2]>>)
  /\ loc' = LineBody(loc)
  /\ UNCHANGED <<dpc, fn, args>>
  /\ UNCHANGED mainVars

LineReturn ==
  /\ dpc \in {"vertical", "horizontal", "bresenham"}
  /\ ~LineCond(loc)
  /\ dpc' = "done"
  /\ UNCHANGED <<fn, args, loc, calls>>
  /\ UNCHANGED mainVars

EnterDrawCircle ==
  /\ dpc = "idle"
  /\ \E color \in Colors, ccx \in Coord, ccy \in Coord, cr \in 0..MaxRadius :
       /\ fn' = "draw_circle"
       /\ args' = [color |-> color, cx |-> ccx, cy |-> ccy, r |-> cr]
       /\ loc' = CircleEnter(ccx, ccy, cr)
       /\ calls' = WithColor(color, CircleExtremes(ccx, ccy, cr))
  /\ dpc' = "circle"
  /\ UNCHANGED mainVars

CircleIter ==
  /\ dpc = "circle"
  /\ CircleCond(loc)
  /\ Len(calls) < MaxCalls
  /\ loc' = CircleAdvance(loc)
  /\ calls' = calls \o WithColor(args.color, CircleOctants(CircleAdvance(loc)))
  /\ UNCHANGED <<dpc, fn, args>>
  /\ UNCHANGED mainVars

CircleReturn ==
  /\ dpc = "circle"
  /\ ~CircleCond(loc)
  /\ dpc' = "done"
  /\ UNCHANGED <<fn, args, loc, calls>>
  /\ UNCHANGED mainVars

DrawNext ==
  \/ EnterDrawLine
  \/ LineIter
  \/ LineReturn
  \/ EnterDrawCircle
  \/ CircleIter
  \/ CircleReturn

SpecDraw == InitDraw /\ [][DrawNext]_vars

----------------------------------------------------------------------------
(* The polar projection *)

\* An angle <<k, n>> stands for the double 2.0 * pi * k / n with
\* pi = 355.0/113.0: n = 60 for the second and minute hands (k = tm_sec,
\* tm_min), n = 12 for the hour hand (k = tm_hour, 0..23) and the tick marks.
\* The tables hold floor(10^6 * sin) and floor(10^6 * cos) of those doubles.
SinSixtieth ==
  <<0,   104528,   207911,   309017,   406736,   500000,
       587785,   669130,   743144,   809017,   866025,   913545,
       951056,   978147,   994521,   999999,   994521,   978147,
       951056,   913545,   866025,   809016,   743144,   669130,
       587785,   499999,   406736,   309016,   207911,   104528,
           -1,  -104529,  -207912,  -309018,  -406737,  -500001,
      -587786,  -669131,  -743146,  -809018,  -866026,  -913546,
      -951057,  -978148,  -994522, -1000000,  -994522,  -978148,
      -951057,  -913546,  -866026,  -809017,  -743145,  -669131,
      -587785,  -500000,  -406737,  -309017,  -207912,  -104528 >>
CosSixtieth ==
  <<1000000,   994521,   978147,   951056,   913545,   866025,
       809016,   743144,   669130,   587785,   499999,   406736,
       309016,   207911,   104528,       -1,  -104529,  -207912,
      -309018,  -406737,  -500001,  -587786,  -669131,  -743145,
      -809018,  -866026,  -913546,  -951057,  -978148,  -994522,
     -1000000,  -994522,  -978148,  -951057,  -913546,  -866026,
      -809017,  -743145,  -669131,  -587785,  -500000,  -406737,
      -309017,  -207912,  -104529,        0,   104528,   207912,
       309017,   406737,   500000,   587785,   669130,   743145,
       809017,   866025,   913545,   951056,   978147,   994521 >>
SinTwelfth ==
  <<0,   500000,   866025,   999999,   866025,   499999,
           -1,  -500001,  -866026, -1000000,  -866026,  -500000,
            0,   500000,   866025,   999999,   866025,   499999,
           -1,  -500001,  -866026, -1000000,  -866025,  -500000 >>
CosTwelfth ==
  <<1000000,   866025,   499999,       -1,  -500001,  -866026,
     -1000000,  -866026,  -500000,        0,   500000,   866025,
       999999,   866025,   499999,       -1,  -500001,  -866026,
     -1000000,  -866025,  -500000,        0,   500000,   866025 >>

\* Only sin(0.0) = 0 and cos(0.0) = 1 are multiples of 10^-6; every other
\* entry is a little more than its table value.
Exact(a) == a[1] = 0

Sine(a) == IF a[2] = 60 THEN SinSixtieth[a[1] + 1] ELSE SinTwelfth[a[1] + 1]
Cosine(a) == IF a[2] = 60 THEN CosSixtieth[a[1] + 1] ELSE CosTwelfth[a[1] + 1]

\* The int that the double c + m * t converts to (truncation toward zero),
\* for ints c and m and t given by its table value q.  It agrees with the
\* compiled expression for 0 <= c < 128 and -12 <= m < 100.
Project(c, m, q, exact) ==
  LET n == c * 1000000 + m * q - (IF m < 0 /\ ~exact THEN 1 ELSE 0)
      whole == (exact \/ m = 0) /\ n % 1000000 = 0
  IN IF n >= 0 \/ whole THEN n \div 1000000 ELSE (n \div 1000000) + 1

\* The int that the double (num/den) * rr converts to, when passed as an int
\* parameter (0.8 * r, 0.95 * r, -0.1 * r, ...).  It agrees with the compiled
\* products for 0 <= rr < 90.
Scaled(num, den, rr) ==
  IF num * rr >= 0 THEN (num * rr) \div den ELSE -((-(num * rr)) \div den)

\* The cells draw_polar_line passes to setpixel through draw_line.
draw_polar_line(pcx, pcy, sd, ed, rad) ==
  draw_line(Project(pcx, sd, Sine(rad), Exact(rad)),
            Project(pcy, -sd, Cosine(rad), Exact(rad)),
            Project(pcx, ed, Sine(rad), Exact(rad)),
            Project(pcy, -ed, Cosine(rad), Exact(rad)))

----------------------------------------------------------------------------
(* The terminal *)

\* setpixel: move(y, 2*x); addstr(color == 0 ? " " : dot)
setpixel(win, call) ==
  IF call[1] = 0 THEN win \ {<<call[2], call[3]>>} ELSE win \cup {<<call[2], call[3]>>}

\* The window after the setpixel calls cs, made in order: a cell touched by
\* cs is on iff the last call on it has a color other than 0.
Plot(win, cs) ==
  LET touched == {<<cs[k][2], cs[k][3]>> : k \in 1..Len(cs)}
      last(c) == CHOOSE k \in 1..Len(cs) :
                   /\ <<cs[k][2], cs[k][3]>> = c
                   /\ \A j \in (k + 1)..Len(cs) : <<cs[j][2], cs[j][3]>> # c
  IN {c \in win \cup touched :
        IF c \in touched THEN c \in setpixel(win, cs[last(c)]) ELSE c \in win}

----------------------------------------------------------------------------
(* main *)

MaxCols == 48      \* initscr() reports 1..MaxCols columns
MaxLines == 24     \* and 1..MaxLines lines
MaxReadings == 60  \* time() returns one of MaxReadings instants

\* time(&t): the instants the clock is read at, in seconds since local
\* midnight of day 0, 1h 01m 01s apart, so that tm_sec and tm_min take each
\* of their 60 values and tm_hour each of its 24.
Readings == {k * 3661 : k \in 0..(MaxReadings - 1)}

\* localtime(&t): the fields of struct tm main uses
localtime(t) ==
  [hour |-> (t \div 3600) % 24, min |-> (t \div 60) % 60, sec |-> t % 60]

PolarCall(color, sd, ed, rad) ==
  [call |-> "draw_polar_line", color |-> color, cx |-> cx, cy |-> cy,
   sd |-> sd, ed |-> ed, rad |-> rad]

\* the setpixel calls of one draw_polar_line call
PolarPixels(c) == WithColor(c.color, draw_polar_line(c.cx, c.cy, c.sd, c.ed, c.rad))

\* the setpixel calls of a sequence of draw_polar_line calls, in order
RECURSIVE AllPixels(_)
AllPixels(cs) == IF cs = <<>> THEN <<>> ELSE PolarPixels(Head(cs)) \o AllPixels(Tail(cs))

PlotAll(win, cs) == Plot(win, AllPixels(cs))

\* for(i = 0; i < 12; i++) draw_polar_line(d, 1, cx, cy, 0.8 * r, 0.95 * r, 2.0 * pi * i / 12.0)
TickCalls ==
  [k \in 1..12 |-> PolarCall(1, Scaled(8, 10, r), Scaled(95, 100, r), <<k - 1, 12>>)]

SecondHandTipFullRadiusMut(rr) == rr

\* the outer distance of the second hand, 0.95 * r
SecondHandTip(rr) == Scaled(95, 100, rr)

\* the three hands: second, minute, hour, from the time t
HandCalls(color, t) ==
  << PolarCall(color, Scaled(-1, 10, r), SecondHandTip(r), <<t.sec, 60>>),
     PolarCall(color, Scaled(-5, 100, r), Scaled(8, 10, r), <<t.min, 60>>),
     PolarCall(color, Scaled(-5, 100, r), Scaled(7, 10, r), <<t.hour, 12>>) >>

\* after setlocale() and initscr(): d = NULL, the terminal has some size
Init ==
  /\ pc = "draw_init"
  /\ COLS \in 1..MaxCols
  /\ LINES \in 1..MaxLines
  /\ d = "NULL"
  /\ cx = 0 /\ cy = 0 /\ r = 0
  /\ lt = <<>>
  /\ window = {} /\ events = <<>>
  /\ dpc = "idle" /\ fn = "none" /\ args = <<>> /\ loc = NoLoc /\ calls = <<>>

\* d = draw_init(setpixel): malloc succeeds or returns NULL
CallDrawInit ==
  /\ pc = "draw_init"
  /\ d' \in {"ctx", "NULL"}
  /\ pc' = "geometry"
  /\ UNCHANGED <<COLS, LINES, cx, cy, r, lt, window, events>>
  /\ UNCHANGED drawVars

\* cx = COLS / 4; cy = LINES / 2; r = 9 * min(cx, cy) / 10; erase();
Geometry ==
  /\ pc = "geometry"
  /\ cx' = COLS \div 4
  /\ cy' = LINES \div 2
  /\ r' = (9 * Min(COLS \div 4, LINES \div 2)) \div 10
  /\ window' = {}
  /\ pc' = "draw_circle"
  /\ UNCHANGED <<COLS, LINES, d, lt, events>>
  /\ UNCHANGED drawVars

\* draw_circle(d, 1, COLS/4, LINES/2, r): with d == NULL the first
\* d->setpixel reads through a null pointer and the process dies.
CallDrawCircle ==
  /\ pc = "draw_circle"
  /\ \/ /\ d = "NULL"
        /\ pc' = "null_dereference"
        /\ UNCHANGED window
     \/ /\ d # "NULL"
        /\ window' = Plot(window, WithColor(1, draw_circle(COLS \div 4, LINES \div 2, r)))
        /\ pc' = "first_refresh"
  /\ UNCHANGED <<COLS, LINES, d, cx, cy, r, lt, events>>
  /\ UNCHANGED drawVars

\* refresh() before the loop: the window as it is now goes to the terminal
FirstRefresh ==
  /\ pc = "first_refresh"
  /\ pc' = "loop"
  /\ UNCHANGED <<COLS, LINES, d, cx, cy, r, lt, window, events>>
  /\ UNCHANGED drawVars

\* top of while(1): time(&t); lt = localtime(&t); the three angles; then the
\* twelve tick marks are drawn again
BeginIterationTicksOnceMut ==
  /\ pc = "loop"
  /\ events' = IF lt = <<>> THEN TickCalls ELSE <<>>
  /\ window' = IF lt = <<>> THEN PlotAll(window, TickCalls) ELSE window
  /\ \E t \in Readings : lt' = localtime(t)
  /\ pc' = "hands"
  /\ UNCHANGED <<COLS, LINES, d, cx, cy, r>>
  /\ UNCHANGED drawVars

BeginIteration ==
  /\ pc = "loop"
  /\ events' = TickCalls
  /\ window' = PlotAll(window, TickCalls)
  /\ \E t \in Readings : lt' = localtime(t)
  /\ pc' = "hands"
  /\ UNCHANGED <<COLS, LINES, d, cx, cy, r>>
  /\ UNCHANGED drawVars

\* the three draw_polar_line(d, 1, ...) calls of the hands
PaintHandsRefreshEachMut ==
  /\ pc = "hands"
  /\ events' = events \o <<HandCalls(1, lt)[1], [call |-> "refresh"],
                           HandCalls(1, lt)[2], [call |-> "refresh"],
                           HandCalls(1, lt)[3]>>
  /\ window' = PlotAll(window, HandCalls(1, lt))
  /\ pc' = "refresh"
  /\ UNCHANGED <<COLS, LINES, d, cx, cy, r, lt>>
  /\ UNCHANGED drawVars

PaintHands ==
  /\ pc = "hands"
  /\ events' = events \o HandCalls(1, lt)
  /\ window' = PlotAll(window, HandCalls(1, lt))
  /\ pc' = "refresh"
  /\ UNCHANGED <<COLS, LINES, d, cx, cy, r, lt>>
  /\ UNCHANGED drawVars

\* refresh() inside the loop: the window as it is now goes to the terminal
Refresh ==
  /\ pc = "refresh"
  /\ events' = Append(events, [call |-> "refresh"])
  /\ pc' = "sleep"
  /\ UNCHANGED <<COLS, LINES, d, cx, cy, r, lt, window>>
  /\ UNCHANGED drawVars

\* sleep(1)
Sleep ==
  /\ pc = "sleep"
  /\ events' = Append(events, [call |-> "sleep"])
  /\ pc' = "erase"
  /\ UNCHANGED <<COLS, LINES, d, cx, cy, r, lt, window>>
  /\ UNCHANGED drawVars

\* the three draw_polar_line(d, 0, ...) calls, with the rs, rm, rh of this iteration
EraseHandsRereadTimeMut ==
  /\ pc = "erase"
  /\ \E t \in Readings :
       /\ events' = events \o HandCalls(0, localtime(t))
       /\ window' = PlotAll(window, HandCalls(0, localtime(t)))
  /\ pc' = "loop"
  /\ UNCHANGED <<COLS, LINES, d, cx, cy, r, lt>>
  /\ UNCHANGED drawVars

EraseHands ==
  /\ pc = "erase"
  /\ events' = events \o HandCalls(0, lt)
  /\ window' = PlotAll(window, HandCalls(0, lt))
  /\ pc' = "loop"
  /\ UNCHANGED <<COLS, LINES, d, cx, cy, r, lt>>
  /\ UNCHANGED drawVars

Next ==
  \/ CallDrawInit
  \/ Geometry
  \/ CallDrawCircle
  \/ FirstRefresh
  \/ BeginIteration
  \/ PaintHands
  \/ Refresh
  \/ Sleep
  \/ EraseHands

Spec == Init /\ [][Next]_vars

----------------------------------------------------------------------------
(* Properties of main, checked under Spec *)

Cells(cs) == {<<cs[k][2], cs[k][3]>> : k \in 1..Len(cs)}
TickCells == Cells(AllPixels(TickCalls))
CircleCells == Cells(WithColor(1, draw_circle(COLS \div 4, LINES \div 2, r)))

\* what a logged call is, as seen on the terminal
Kind(e) ==
  IF e.call = "draw_polar_line" THEN (IF e.color = 0 THEN "erase" ELSE "paint")
  ELSE IF e.call = "refresh" THEN "flush"
  ELSE "wait"

\* 12 tick marks and 3 hands painted, one flush, the wait, 3 hands erased
IterationOrder ==
  [k \in 1..20 |-> IF k <= 15 THEN "paint"
                   ELSE IF k = 16 THEN "flush"
                   ELSE IF k = 17 THEN "wait"
                   ELSE "erase"]

\* C5: in every iteration of the loop the calls come in the order: the
\* paints of the tick marks and of the three hands, then exactly one refresh,
\* then the sleep, then the three erases; no refresh between an erase and
\* the next paints, no erase between the paints and the sleep.
C5_PaintFlushWaitErase ==
  /\ Len(events) <= 20
  /\ \A k \in 1..Len(events) : Kind(events[k]) = IterationOrder[k]
  /\ pc = "hands" => Len(events) = 12
  /\ pc = "refresh" => Len(events) = 15
  /\ pc = "sleep" => Len(events) = 16
  /\ pc = "erase" => Len(events) = 17
  /\ (pc = "loop" /\ lt # <<>>) => Len(events) = 20

C5_Witness == pc = "loop" /\ Len(events) = 20 /\ r >= 5

\* C6: the three erase calls of an iteration have the arguments of its three
\* paint calls (centre, distances, angle), and once they are done every cell
\* the hand paints of the iteration touched is off, so none is still on when
\* the next iteration starts painting.
C6_EraseUndoesPaint ==
  (pc = "loop" /\ Len(events) = 20) =>
    \A k \in 13..15 :
      /\ events[k + 5] = [events[k] EXCEPT !.color = 0]
      /\ Cells(PolarPixels(events[k])) \cap window = {}

C6_Witness ==
  /\ pc = "loop" /\ Len(events) = 20 /\ r >= 8
  /\ Cardinality(Cells(PolarPixels(events[13]))) >= 6
  /\ Cells(PolarPixels(events[13])) \cap TickCells # {}

\* C7 as claimed: the tick marks are static, no operation of the program
\* ever sets a tick-mark cell to off.
C7_TicksNeverTurnedOff ==
  [][\A c \in TickCells : c \in window => c \in window']_vars

\* C7 as amended: the tick marks are painted again at the top of every
\* iteration; an erase may turn tick-mark cells off, but every tick-mark
\* cell is on at every refresh of the loop.
C7_TicksOnAtEveryLoopRefresh ==
  /\ Len(events) >= 12 => \A k \in 1..12 : events[k] = TickCalls[k]
  /\ pc = "sleep" => TickCells \subseteq window

C7_Witness ==
  /\ pc = "sleep" /\ r >= 8 /\ lt.sec = 0
  /\ TickCells \cap Cells(PolarPixels(events[13])) # {}

\* C8: when draw_init returns NULL the program stops with an error; no
\* drawing routine is called through the null context.
C8_NullContextIsFatal ==
  d = "NULL" => pc \in {"draw_init", "geometry", "exit_failure"}

\* C10 as claimed: for every terminal size and time, no erase of a hand sets
\* a cell that draw_circle painted.
C10_CircleNeverErased ==
  [][\A c \in CircleCells : c \in window => c \in window']_vars

\* C10 as amended: the circle is painted once, before the loop; when r >= 1
\* (COLS >= 8 and LINES >= 4) no later call turns a cell of it off; for every
\* terminal size the whole circle is on at every refresh.
C10_CircleOnAtEveryRefresh ==
  /\ \A k \in 1..Len(events) : events[k].call # "draw_circle"
  /\ (r >= 1 /\ pc \in {"first_refresh", "loop", "hands", "refresh", "sleep", "erase"})
       => CircleCells \subseteq window
  /\ (pc = "sleep" \/ (pc = "loop" /\ lt = <<>>)) => CircleCells \subseteq window

C10_Witness ==
  \/ pc = "loop" /\ Len(events) = 20 /\ r = 10 /\ lt.sec = 0
  \/ pc = "sleep" /\ r = 0

----------------------------------------------------------------------------
(* Properties of the rasterizer, checked under SpecDraw *)

CallCells == {<<calls[k][2], calls[k][3]>> : k \in 1..Len(calls)}
CellAt(k) == <<calls[k][2], calls[k][3]>>
LineDone == dpc = "done" /\ fn = "draw_line"
CircleDone == dpc = "done" /\ fn = "draw_circle"
Adjacent(p, q) == abs(p[1] - q[1]) <= 1 /\ abs(p[2] - q[2]) <= 1

\* round(sqrt(n)) for an integer n >= 0: the k with k - 1/2 <= sqrt(n) < k + 1/2
RoundSqrt(n) ==
  CHOOSE k \in 0..n : /\ (k = 0 \/ (2 * k - 1) * (2 * k - 1) <= 4 * n)
                      /\ 4 * n < (2 * k + 1) * (2 * k + 1)

\* C1: a call of draw_line calls setpixel on the start cell (sx, sy) and on
\* the end cell (ex, ey), whichever branch handles the call.
C1_BothEndpointsPainted ==
  LineDone => /\ <<args.sx, args.sy>> \in CallCells
              /\ <<args.ex, args.ey>> \in CallCells

\* C2: a horizontal or vertical call of draw_line (start == end included)
\* makes exactly |delta|+1 setpixel calls, one for each cell of the inclusive
\* range between the endpoints, none twice, none outside, in either order of
\* the endpoints.
C2_AxisAlignedExactRange ==
  (LineDone /\ (args.sx = args.ex \/ args.sy = args.ey)) =>
    LET delta == IF args.sx = args.ex THEN args.ey - args.sy ELSE args.ex - args.sx
        range == {<<x, y>> : x \in Min(args.sx, args.ex)..Max(args.sx, args.ex),
                             y \in Min(args.sy, args.ey)..Max(args.sy, args.ey)}
    IN /\ Len(calls) = abs(delta) + 1
       /\ CallCells = range
       /\ Cardinality(CallCells) = Len(calls)
       /\ \A k \in 1..Len(calls) : calls[k][1] = args.color

C2_Witness ==
  /\ LineDone /\ args.sx = args.ex /\ args.sy > args.ey + 2 /\ Len(calls) >= 4

\* C3: in the Bresenham branch (sx != ex and sy != ey) the first painted cell
\* is the start cell, consecutive painted cells differ by at most one in each
\* axis, and the last painted cell is equal or adjacent to the end cell.
C3_BresenhamConnected ==
  (LineDone /\ args.sx # args.ex /\ args.sy # args.ey) =>
    /\ Len(calls) >= 1
    /\ CellAt(1) = <<args.sx, args.sy>>
    /\ \A k \in 1..(Len(calls) - 1) : Adjacent(CellAt(k), CellAt(k + 1))
    /\ Adjacent(CellAt(Len(calls)), <<args.ex, args.ey>>)

C3_Witness ==
  /\ LineDone /\ loc.branch = "bresenham" /\ loc.steep /\ loc.xs = -1
  /\ Len(calls) >= 3
  /\ CellAt(Len(calls)) # <<args.ex, args.ey>>

\* C4: the cells draw_circle paints (r >= 0) are closed under x -> -x,
\* y -> -y and (x, y) -> (y, x) relative to the centre, and every painted cell
\* has round(sqrt((px-cx)^2 + (py-cy)^2)) within 1 of r.
C4_CircleSymmetricOnRadius ==
  CircleDone =>
    LET rel == {<<c[1] - args.cx, c[2] - args.cy>> : c \in CallCells}
    IN /\ \A p \in rel : /\ <<-p[1], p[2]>> \in rel
                         /\ <<p[1], -p[2]>> \in rel
                         /\ <<p[2], p[1]>> \in rel
       /\ \A p \in rel : abs(RoundSqrt(p[1] * p[1] + p[2] * p[2]) - args.r) <= 1

C4_Witness == CircleDone /\ args.r >= 5 /\ Len(calls) >= 28

\* C9: every call of draw_line and draw_circle ends after finitely many
\* setpixel calls: the calls never exceed the length of the major axis plus
\* one (line) or 4 + 8r (circle), the Bresenham walk always has ex ahead of x,
\* a zero-length line is handled by the vertical branch and the Bresenham
\* branch is entered only with sx != ex and sy != ey, a radius-0 circle
\* makes only the four extreme-point calls, all on the centre, and the call is
\* never stuck before its return.
C9_Terminates ==
  /\ fn = "draw_line" =>
       /\ Len(calls) <= Max(abs(args.ex - args.sx), abs(args.ey - args.sy)) + 1
       /\ (args.sx = args.ex /\ args.sy = args.ey) => loc.branch = "vertical"
       /\ loc.branch = "bresenham" =>
            /\ args.sx # args.ex /\ args.sy # args.ey
            /\ (loc.ex - loc.x) * loc.xs >= 0
  /\ fn = "draw_circle" =>
       /\ Len(calls) <= 4 + 8 * args.r
       /\ (dpc = "done" /\ args.r = 0) =>
            calls = [k \in 1..4 |-> <<args.color, args.cx, args.cy>>]
  /\ dpc = "done" \/ ENABLED DrawNext

C9_Witness ==
  \/ LineDone /\ args.sx = args.ex /\ args.sy = args.ey /\ Len(calls) = 1
  \/ CircleDone /\ args.r = 0 /\ Len(calls) = 4

====
